---------------------------- MODULE Spec2Model ----------------------------
(***************************************************************************)
(* Model of base_pid (src/pid.hpp, src/pid.cpp): a single-loop PID         *)
(* controller with manual mode, bumpless transfer, deadband gate,          *)
(* conditional-integration anti-windup and output clamping.                *)
(*                                                                         *)
(* Number representation.  The float fields are modelled as integers.      *)
(* Process values, limits, kp, kd, Iterm, lerr and tmp_co are held in      *)
(* units of 1.  The internal integral gain ki (= kiv * 1.0e-6) is held as  *)
(* a fixed-point number with KiFrac fractional steps per unit, so that the *)
(* 1.0e-6 scaling of the source is representable.  Float division and the  *)
(* fixed-point reductions round to the nearest integer (RDiv).  Infinities *)
(* and NaN are outside the model: every value stays far below FLT_MAX.     *)
(*                                                                         *)
(* A float* binding is modelled as a sequence: <<>> is nullptr, <<v>> is a *)
(* pointer to a caller-owned cell that currently holds v.                  *)
(***************************************************************************)
EXTENDS Integers, Sequences, FiniteSets, TLC

\* ------------------------------------------------------------------------
\* Program constants
\* ------------------------------------------------------------------------

\* DT_MIN_PID: minimal PID time slice in us.
DT_MIN_PID == 10

\* The scale factor 1.0e+6 between caller gains (per second) and internal
\* gains (per microsecond); 1.0e-6 is its reciprocal.
USEC == 1000000

\* Fixed-point denominator of the stored ki.
KiFrac == USEC

\* ------------------------------------------------------------------------
\* Bounds of the model
\* ------------------------------------------------------------------------

\* Stand-in for __FLT_MAX__: larger than every value the model computes.
FLT_MAX == 1000000000

\* The setpoint cell holds -MaxVal, 0 or MaxVal and the process variable
\* cell stays at 0: the error sp - pv is negative, zero or positive.
MaxVal == 1

\* Output limits given to set_cp_limits / the constructor are 0 and MaxLim.
MaxLim == 1

\* Timestamps are 0, 1 us and the whole seconds 1..NSec.
NSec == 1

Vals == {-MaxVal, 0, MaxVal}
\* The tieback cell holds 0 or a value above MaxLim.
TbVals == {0, MaxLim + 1}
\* Caller gains <<kp, ki, kd>>: none, P, I and PID (controllers of the unit
\* test).
GainSets == {<<0, 0, 0>>, <<1, 0, 0>>, <<0, 1, 0>>, <<1, 1, 1>>}
\* Deadband settings <<db, db_on>>.
DbParams == {<<0, FALSE>>, <<1, TRUE>>}
\* The co cell holds 3 before the first write (as in the unit test).
CoInit == {3}
DtMins == {0, DT_MIN_PID}
Stamps == {0, 1} \cup {k * USEC : k \in 1..NSec}

\* ------------------------------------------------------------------------
\* State
\* ------------------------------------------------------------------------
VARIABLES
    pv, sp, tb, co,             \* bindings (<<>> = nullptr, <<v>> = cell)
    kp, ki, kd, db,             \* gains (internal scaling) and deadband
    pvll, pvhl, spll, sphl,     \* informational limits
    coll, cohl,                 \* control output limits
    dtmin, db_on, man_on,       \* time slice, deadband switch, manual switch
    lts, lman_on, Iterm, lerr,  \* transient state
    tmp_co,                     \* the last calculated control output
    last,                       \* the last call: operation, result, branch
    out,                        \* values a getter returned through its refs
    eff_co,                     \* what the latest effective evaluation wrote
                                \* to co (<<>> before the first one)
    now                         \* the latest timestamp given to run_pid
                                \* (0 before the first call)

bindings == <<pv, sp, tb, co>>
gains == <<kp, ki, kd>>
pvsp_limits == <<pvll, pvhl, spll, sphl>>
co_limits == <<coll, cohl>>
transient == <<lts, lman_on, Iterm, lerr, tmp_co>>
vars == <<pv, sp, tb, co, kp, ki, kd, db, pvll, pvhl, spll, sphl, coll, cohl,
          dtmin, db_on, man_on, lts, lman_on, Iterm, lerr, tmp_co, last, out,
          eff_co, now>>

NULL == <<>>
Cell(v) == <<v>>
Deref(p) == p[1]

\* Record of a call: op, return value (0 for void), branch of run_pid taken
\* and whether the bumpless seeding step ran.
Call(o, r, p, s) == [op |-> o, ret |-> r, path |-> p, seeded |-> s]

\* ------------------------------------------------------------------------
\* Arithmetic helpers
\* ------------------------------------------------------------------------

\* Division (b > 0) rounding to nearest, halves away from zero.
RDiv(a, b) ==
    LET m == IF a >= 0 THEN a ELSE -a
        q == (m \div b) + (IF 2 * (m % b) >= b THEN 1 ELSE 0)
    IN IF a >= 0 THEN q ELSE -q

\* kiv * 1.0e-6, as a fixed-point number with KiFrac steps per unit.
ScaleKi(kiv) == RDiv(kiv * KiFrac, USEC)

\* What a float holds after a product beyond +-FLT_MAX (IEEE 754 infinity).
Inf == 2 * FLT_MAX

\* FLT_MAX * 1.0e-6, the bound set_gain_param names for kdv.
KdMax == FLT_MAX \div USEC

\* Gain scaling that stores the caller's value as it is.
ScaleKd_Unscaled(kdv) == kdv

\* kdv * 1.0e+6, stored in a float: a product beyond +-FLT_MAX is infinite.
ScaleKd(kdv) ==
    IF kdv > KdMax THEN Inf ELSE IF kdv < -KdMax THEN -Inf ELSE kdv * USEC

\* ki * 1.0e+6: the stored ki back in caller units.
UnscaleKi(kiv) == RDiv(kiv * USEC, KiFrac)

\* kd * 1.0e-6: the stored kd back in caller units; infinity stays infinite.
UnscaleKd(kdv) ==
    IF kdv >= Inf THEN Inf ELSE IF kdv <= -Inf THEN -Inf ELSE RDiv(kdv, USEC)

\* Clamp without the upper bound.
Clamp_NoHigh(x, lo, hi) == IF x < lo THEN lo ELSE x

\* (x < lo) ? lo : (x > hi) ? hi : x
Clamp(x, lo, hi) == IF x < lo THEN lo ELSE IF x > hi THEN hi ELSE x


\* ------------------------------------------------------------------------
\* Constructors
\* ------------------------------------------------------------------------

\* base_pid::base_pid(): no bindings, zero gains, full-range limits,
\* default time slice, manual mode on.
Ctor_default ==
    /\ pv = NULL /\ sp = NULL /\ tb = NULL /\ co = NULL
    /\ kp = 0 /\ ki = 0 /\ kd = 0 /\ db = 0
    /\ pvll = -FLT_MAX /\ pvhl = FLT_MAX
    /\ spll = -FLT_MAX /\ sphl = FLT_MAX
    /\ coll = -FLT_MAX /\ cohl = FLT_MAX
    /\ dtmin = DT_MIN_PID /\ db_on = FALSE /\ man_on = TRUE
    /\ lts = 0 /\ lman_on = TRUE /\ Iterm = 0 /\ lerr = 0 /\ tmp_co = 0

\* base_pid::base_pid(ppv, psp, pco, ptie = nullptr)
Ctor_minimal(ppv, psp, pco, ptie) ==
    /\ pv = ppv /\ sp = psp /\ tb = ptie /\ co = pco
    /\ kp = 0 /\ ki = 0 /\ kd = 0 /\ db = 0
    /\ pvll = -FLT_MAX /\ pvhl = FLT_MAX
    /\ spll = -FLT_MAX /\ sphl = FLT_MAX
    /\ coll = -FLT_MAX /\ cohl = FLT_MAX
    /\ dtmin = DT_MIN_PID /\ db_on = FALSE /\ man_on = TRUE
    /\ lts = 0 /\ lman_on = TRUE /\ Iterm = 0 /\ lerr = 0 /\ tmp_co = 0

\* base_pid::base_pid(ppv, psp, pco, ptie, kpv, kiv, kdv, dbv, pvllv, pvhlv,
\*                    spllv, sphlv, collv, cohlv, db_onv, man_onv, dtminv):
\* every argument is stored as given, the gains after scaling; nothing is
\* validated.
Ctor_full(ppv, psp, pco, ptie, kpv, kiv, kdv, dbv, pvllv, pvhlv, spllv, sphlv, collv, cohlv, db_onv, man_onv, dtminv) ==
    /\ pv = ppv /\ sp = psp /\ tb = ptie /\ co = pco
    /\ kp = kpv /\ ki = ScaleKi(kiv) /\ kd = ScaleKd(kdv) /\ db = dbv
    /\ pvll = pvllv /\ pvhl = pvhlv
    /\ spll = spllv /\ sphl = sphlv
    /\ coll = collv /\ cohl = cohlv
    /\ dtmin = dtminv /\ db_on = db_onv /\ man_on = man_onv
    /\ lts = 0 /\ lman_on = TRUE /\ Iterm = 0 /\ lerr = 0 /\ tmp_co = 0

\* The binding tuples <<ppv, psp, pco, ptie>> a caller constructs with.  The
\* pv, sp and tb cells start at 0 (the caller rewrites them at will, see
\* caller_write); the co cell starts at any value of CoInit.
Bindings ==
    {<<Cell(0), Cell(0), Cell(c), t>> : c \in CoInit, t \in {NULL, Cell(0)}}
    \cup {<<Cell(0), Cell(0), NULL, NULL>>, <<NULL, Cell(0), Cell(0), NULL>>}

\* Limit pairs a caller passes: any order, or the declared defaults.
LimPairs == {<<0, MaxLim>>, <<MaxLim, 0>>, <<-FLT_MAX, FLT_MAX>>}

InitDefault ==
    /\ Ctor_default
    /\ last = Call("base_pid", 0, "none", FALSE)
    /\ out = <<>>
    /\ eff_co = NULL
    /\ now = 0

InitMinimal ==
    /\ \E b \in Bindings : Ctor_minimal(b[1], b[2], b[3], b[4])
    /\ last = Call("base_pid", 0, "none", FALSE)
    /\ out = <<>>
    /\ eff_co = NULL
    /\ now = 0

\* Full constructor, informational limits left at their declared defaults.
InitFull ==
    /\ \E b \in Bindings, g \in GainSets, d \in DbParams, cl \in LimPairs,
          man_onv \in BOOLEAN, dtminv \in DtMins :
          Ctor_full(b[1], b[2], b[3], b[4], g[1], g[2], g[3], d[1],
                    -FLT_MAX, FLT_MAX, -FLT_MAX, FLT_MAX, cl[1], cl[2],
                    d[2], man_onv, dtminv)
    /\ last = Call("base_pid", 0, "none", FALSE)
    /\ out = <<>>
    /\ eff_co = NULL
    /\ now = 0

Init == InitDefault \/ InitMinimal \/ InitFull


\* ------------------------------------------------------------------------
\* Limit accessors
\* ------------------------------------------------------------------------

\* set_*_limits that stores the pair as given.
StoreLimits_NoSwap(ll, hl) ==
    [lo |-> ll, hi |-> hl, ret |-> IF hl < ll THEN -1 ELSE 0]

\* The body shared by set_pv_limits, set_sp_limits and set_cp_limits:
\* if (hl < ll) store (hl, ll) and return -1, else store (ll, hl), return 0.
StoreLimits(ll, hl) ==
    IF hl < ll THEN [lo |-> hl, hi |-> ll, ret |-> -1]
               ELSE [lo |-> ll, hi |-> hl, ret |-> 0]

get_pv_limits ==
    /\ out' = <<pvll, pvhl>>
    /\ last' = Call("get_pv_limits", 0, "none", FALSE)
    /\ UNCHANGED <<bindings, gains, db, pvsp_limits, co_limits, dtmin, db_on,
                   man_on, transient, eff_co, now>>

set_pv_limits(ll, hl) ==
    LET r == StoreLimits(ll, hl) IN
    /\ pvll' = r.lo
    /\ pvhl' = r.hi
    /\ last' = Call("set_pv_limits", r.ret, "none", FALSE)
    /\ out' = <<>>
    /\ UNCHANGED <<bindings, gains, db, spll, sphl, co_limits, dtmin, db_on,
                   man_on, transient, eff_co, now>>

get_sp_limits ==
    /\ out' = <<spll, sphl>>
    /\ last' = Call("get_sp_limits", 0, "none", FALSE)
    /\ UNCHANGED <<bindings, gains, db, pvsp_limits, co_limits, dtmin, db_on,
                   man_on, transient, eff_co, now>>

set_sp_limits(ll, hl) ==
    LET r == StoreLimits(ll, hl) IN
    /\ spll' = r.lo
    /\ sphl' = r.hi
    /\ last' = Call("set_sp_limits", r.ret, "none", FALSE)
    /\ out' = <<>>
    /\ UNCHANGED <<bindings, gains, db, pvll, pvhl, co_limits, dtmin, db_on,
                   man_on, transient, eff_co, now>>

get_co_limits ==
    /\ out' = <<coll, cohl>>
    /\ last' = Call("get_co_limits", 0, "none", FALSE)
    /\ UNCHANGED <<bindings, gains, db, pvsp_limits, co_limits, dtmin, db_on,
                   man_on, transient, eff_co, now>>

set_cp_limits(ll, hl) ==
    LET r == StoreLimits(ll, hl) IN
    /\ coll' = r.lo
    /\ cohl' = r.hi
    /\ last' = Call("set_cp_limits", r.ret, "none", FALSE)
    /\ out' = <<>>
    /\ UNCHANGED <<bindings, gains, db, pvsp_limits, dtmin, db_on, man_on,
                   transient, eff_co, now>>

\* ------------------------------------------------------------------------
\* Gain, deadband, manual mode and time slice setters
\* ------------------------------------------------------------------------

get_gain_param ==
    /\ out' = <<kp, UnscaleKi(ki), UnscaleKd(kd)>>
    /\ last' = Call("get_gain_param", 0, "none", FALSE)
    /\ UNCHANGED <<bindings, gains, db, pvsp_limits, co_limits, dtmin, db_on,
                   man_on, transient, eff_co, now>>

\* The range check of set_gain_param, as written: the last comparison tests
\* kpv (not kdv) against FLT_MAX * 1.0e-6.
GainRejected(kpv, kiv, kdv) ==
    \/ kpv < -FLT_MAX \/ kpv > FLT_MAX
    \/ kiv < -FLT_MAX \/ kiv > FLT_MAX
    \/ kdv < -RDiv(FLT_MAX, USEC) \/ kpv > RDiv(FLT_MAX, USEC)

set_gain_param(kpv, kiv, kdv) ==
    /\ IF GainRejected(kpv, kiv, kdv)
          THEN /\ UNCHANGED gains
               /\ last' = Call("set_gain_param", -1, "none", FALSE)
          ELSE /\ kp' = kpv
               /\ ki' = ScaleKi(kiv)
               /\ kd' = ScaleKd(kdv)
               /\ last' = Call("set_gain_param", 0, "none", FALSE)
    /\ out' = <<>>
    /\ UNCHANGED <<bindings, db, pvsp_limits, co_limits, dtmin, db_on, man_on,
                   transient, eff_co, now>>

get_db_param ==
    /\ out' = <<db, db_on>>
    /\ last' = Call("get_db_param", 0, "none", FALSE)
    /\ UNCHANGED <<bindings, gains, db, pvsp_limits, co_limits, dtmin, db_on,
                   man_on, transient, eff_co, now>>

set_db_param(dbv, db_onv) ==
    /\ IF dbv < -FLT_MAX \/ dbv > FLT_MAX
          THEN /\ UNCHANGED <<db, db_on>>
               /\ last' = Call("set_db_param", -1, "none", FALSE)
          ELSE /\ db' = dbv
               /\ db_on' = db_onv
               /\ last' = Call("set_db_param", 0, "none", FALSE)
    /\ out' = <<>>
    /\ UNCHANGED <<bindings, gains, pvsp_limits, co_limits, dtmin, man_on,
                   transient, eff_co, now>>

get_man_param ==
    /\ out' = <<man_on>>
    /\ last' = Call("get_man_param", 0, "none", FALSE)
    /\ UNCHANGED <<bindings, gains, db, pvsp_limits, co_limits, dtmin, db_on,
                   man_on, transient, eff_co, now>>

\* set_man_param that also marks the last cycle as manual.
set_man_param_Mark(man_onv) ==
    /\ man_on' = man_onv
    /\ lman_on' = man_onv
    /\ last' = Call("set_man_param", 0, "none", FALSE)
    /\ out' = <<>>
    /\ UNCHANGED <<bindings, gains, db, pvsp_limits, co_limits, dtmin, db_on,
                   lts, Iterm, lerr, tmp_co, eff_co, now>>

set_man_param(man_onv) ==
    /\ man_on' = man_onv
    /\ last' = Call("set_man_param", 0, "none", FALSE)
    /\ out' = <<>>
    /\ UNCHANGED <<bindings, gains, db, pvsp_limits, co_limits, dtmin, db_on,
                   transient, eff_co, now>>

get_dtmin_param ==
    /\ out' = <<dtmin>>
    /\ last' = Call("get_dtmin_param", 0, "none", FALSE)
    /\ UNCHANGED <<bindings, gains, db, pvsp_limits, co_limits, dtmin, db_on,
                   man_on, transient, eff_co, now>>

\* set_dtmin_param that stores the value as given.
DtminFloor_None(dtminv) == dtminv

\* dtmin = dtminv; if (dtmin == 0) { dtmin++; return -1; } return 0;
DtminFloor(dtminv) == IF dtminv = 0 THEN dtminv + 1 ELSE dtminv

set_dtmin_param(dtminv) ==
    /\ dtmin' = DtminFloor(dtminv)
    /\ last' = Call("set_dtmin_param", IF dtminv = 0 THEN -1 ELSE 0, "none",
                    FALSE)
    /\ out' = <<>>
    /\ UNCHANGED <<bindings, gains, db, pvsp_limits, co_limits, db_on, man_on,
                   transient, eff_co, now>>

\* ------------------------------------------------------------------------
\* The caller's side of the bindings
\* ------------------------------------------------------------------------

\* Between calls the caller rewrites the cells it owns: pv, sp and (when
\* bound) tb.  The co cell is written by run_pid only.
caller_write(v_pv, v_sp, v_tb) ==
    /\ pv # NULL /\ sp # NULL
    /\ pv' = Cell(v_pv)
    /\ sp' = Cell(v_sp)
    /\ tb' = IF tb = NULL THEN NULL ELSE Cell(v_tb)
    /\ <<pv', sp', tb'>> # <<pv, sp, tb>>
    /\ last' = Call("caller_write", 0, "none", FALSE)
    /\ out' = <<>>
    /\ UNCHANGED <<co, gains, db, pvsp_limits, co_limits, dtmin, db_on,
                   man_on, transient, eff_co, now>>


\* ------------------------------------------------------------------------
\* run_pid
\* ------------------------------------------------------------------------

\* Binding check that does not look at co.
Unbound_NoCo(ppv, psp, pco) == ppv = NULL \/ psp = NULL

\* pv == nullptr || sp == nullptr || co == nullptr
Unbound(ppv, psp, pco) == ppv = NULL \/ psp = NULL \/ pco = NULL

\* The statement, had it been the assignment dtmin = 1.
DtZeroStmt_Assign(dtminv) == 1

\* "dtmin == 1;" in the dtmin == 0 branch: a comparison whose result is
\* discarded; dtmin keeps its value.
DtZeroStmt(dtminv) == dtminv

\* Time-slice test that holds for a repeated timestamp only.
InTimeSlice_Same(tmp_dt, dtminv) == tmp_dt = 0

\* Time-slice test that never holds.
InTimeSlice_Never(tmp_dt, dtminv) == FALSE

\* tmp_dt < dtmin: no minimal time slice elapsed, only CO is refreshed.
InTimeSlice(tmp_dt, dtminv) == tmp_dt < dtminv

\* A time-sliced call that writes the clamped tmp_co instead.
SliceOut_Clamped(tc) == Clamp(tc, coll, cohl)

\* The value a time-sliced call writes to CO: the stored tmp_co, as it is.
SliceOut(tc) == tc

\* Manual output with the tieback taken as it is.
ManualOut_Raw(ptie, lo, hi) == IF ptie = NULL THEN 0 ELSE Deref(ptie)

\* Manual output that ignores the tieback.
ManualOut_NoTieback(ptie, lo, hi) == Clamp(0, lo, hi)

\* Manual output that is the low limit, whatever the tieback.
ManualOut_Low(ptie, lo, hi) == lo

\* Manual mode: tieback (0 when tb is not connected) under the CO limits.
ManualOut(ptie, lo, hi) ==
    Clamp(IF ptie = NULL THEN 0 ELSE Deref(ptie), lo, hi)

\* Bumpless switch that never seeds Iterm.
Bumpless_NoSeed(lman, it, tc) == it

\* Bumpless switch: coming from manual mode Iterm is set to the last co
\* value, otherwise it is kept.
Bumpless(lman, it, tc) == IF lman THEN tc ELSE it

\* Deadband test on the magnitude of the error.
InDeadband_Abs(on, tmp_err, dbv) == on /\ tmp_err < dbv /\ -tmp_err < dbv

\* db_on && tmp_err < db
InDeadband(on, tmp_err, dbv) == on /\ tmp_err < dbv

\* A deadband-gated call that writes 0.
DeadbandOut_Zero(tc) == 0

\* The value a deadband-gated call writes to CO: the stored tmp_co.
DeadbandOut(tc) == tc

\* kp * tmp_err
Pterm(kpv, tmp_err) == kpv * tmp_err

\* kd * (tmp_err - lerr) / (float)tmp_dt
Dterm(kdv, tmp_err, le, tmp_dt) == RDiv(kdv * (tmp_err - le), tmp_dt)

\* Integral delta that leaves the elapsed time out.
Delta_NoDt(kiv, tmp_err, tmp_dt) == RDiv(kiv * tmp_err, KiFrac)

\* d_iterm = ki * tmp_err * (float)tmp_dt, ki in fixed point
Delta(kiv, tmp_err, tmp_dt) == RDiv(kiv * tmp_err * tmp_dt, KiFrac)

\* Anti-windup test that never freezes.
Frozen_Never(total, d_iterm, lo, hi) == FALSE

\* The anti-windup test: the delta would push a saturated total further out.
Frozen(total, d_iterm, lo, hi) ==
    (total > hi /\ d_iterm > 0) \/ (total < lo /\ d_iterm < 0)

\* Process Iterm: reset when ki == 0; otherwise add the Iterm in force to
\* the running total (P + D) and fold the delta in unless it is frozen.
\* Yields the new running total, the new Iterm and the branch taken.
IntegralStep(total, kiv, it, d_iterm, lo, hi) ==
    IF kiv = 0 THEN [total |-> total, Iterm |-> 0, path |-> "reset"]
    ELSE IF Frozen(total + it, d_iterm, lo, hi)
         THEN [total |-> total + it, Iterm |-> it, path |-> "frozen"]
         ELSE [total |-> total + it + d_iterm, Iterm |-> it + d_iterm,
               path |-> "integrate"]

\* The control law of one evaluation: the new Iterm and the clamped output.
Law(tmp_err, tmp_dt, it) ==
    LET pd == Pterm(kp, tmp_err) + Dterm(kd, tmp_err, lerr, tmp_dt)
        st == IntegralStep(pd, ki, it, Delta(ki, tmp_err, tmp_dt), coll, cohl)
    IN [Iterm |-> st.Iterm, co |-> Clamp(st.total, coll, cohl),
        path |-> st.path]

\* The branches of run_pid that apply the control law.
LawPaths == {"reset", "frozen", "integrate"}
\* The branches that are effective evaluations (lts advances).
EffectivePaths == {"manual", "deadband"} \cup LawPaths

run_pid(tstamp) ==
    LET tmp_dt == tstamp - lts IN
    /\ out' = <<>>
    /\ now' = tstamp
    /\ IF Unbound(pv, sp, co)
       THEN \* process variables are not set
            /\ last' = Call("run_pid", -1, "nobind", FALSE)
            /\ UNCHANGED <<co, transient, eff_co, dtmin>>
       ELSE IF dtmin = 0
       THEN /\ dtmin' = DtZeroStmt(dtmin)
            /\ last' = Call("run_pid", -1, "dtzero", FALSE)
            /\ UNCHANGED <<co, transient, eff_co>>
       ELSE IF InTimeSlice(tmp_dt, dtmin)
       THEN /\ co' = Cell(SliceOut(tmp_co))
            /\ last' = Call("run_pid", 0, "slice", FALSE)
            /\ UNCHANGED <<transient, eff_co, dtmin>>
       ELSE IF man_on
       THEN /\ lts' = tstamp
            /\ UNCHANGED dtmin
            /\ tmp_co' = ManualOut(tb, coll, cohl)
            /\ co' = Cell(tmp_co')
            /\ eff_co' = co'
            /\ lman_on' = TRUE
            /\ last' = Call("run_pid", 0, "manual", FALSE)
            /\ UNCHANGED <<Iterm, lerr>>
       ELSE LET it == Bumpless(lman_on, Iterm, tmp_co)
                tmp_err == Deref(sp) - Deref(pv)
            IN /\ lts' = tstamp
               /\ UNCHANGED dtmin
               /\ lman_on' = FALSE
               /\ lerr' = tmp_err
               /\ IF InDeadband(db_on, tmp_err, db)
                  THEN /\ Iterm' = it
                       /\ co' = Cell(DeadbandOut(tmp_co))
                       /\ eff_co' = co'
                       /\ last' = Call("run_pid", 0, "deadband", lman_on)
                       /\ UNCHANGED tmp_co
                  ELSE LET r == Law(tmp_err, tmp_dt, it)
                       IN /\ Iterm' = r.Iterm
                          /\ tmp_co' = r.co
                          /\ co' = Cell(r.co)
                          /\ eff_co' = co'
                          /\ last' = Call("run_pid", 0, r.path, lman_on)
    /\ UNCHANGED <<pv, sp, tb, gains, db, pvsp_limits, co_limits, db_on,
                   man_on>>

\* ------------------------------------------------------------------------
\* Specifications
\* ------------------------------------------------------------------------

\* The control loop: the evaluation, the setters that steer it, the output
\* limit accessors and the caller's writes to its cells.  The caller gives
\* non-decreasing timestamps (the unsigned subtraction does not wrap).
Next ==
    \/ \E t \in Stamps : t >= now /\ run_pid(t)
    \/ \E p \in LimPairs : set_cp_limits(p[1], p[2])
    \/ \E g \in GainSets : set_gain_param(g[1], g[2], g[3])
    \/ \E d \in DbParams : set_db_param(d[1], d[2])
    \/ \E on \in BOOLEAN : set_man_param(on)
    \/ \E d \in DtMins : set_dtmin_param(d)
    \/ \E b \in Vals, c \in TbVals : caller_write(0, b, c)

Spec == Init /\ [][Next]_vars


\* ------------------------------------------------------------------------
\* Claims about run_pid
\* ------------------------------------------------------------------------

\* The last call was run_pid and it returned 0.
RunOk == last.op = "run_pid" /\ last.ret = 0

\* x is within the stored output limits.
WithinLimits(x) == coll <= x /\ x <= cohl

\* x is one of the stored output limits or lies strictly between them; the
\* same as WithinLimits(x) whenever coll <= cohl.
AtOrBetweenLimits(x) == x = coll \/ x = cohl \/ (coll < x /\ x < cohl)

\* C1 as stated: after every run_pid call that returns 0 (time-sliced and
\* deadband-gated cycles included) the value in co lies within [coll, cohl].
\* Stated for ordered limits only, so that a violation does not rest on a
\* constructor given low > high.
C1_Original == (RunOk /\ coll <= cohl) => WithinLimits(Deref(co))

\* C1, amended: after every run_pid call that returns 0 from the manual
\* branch or from the control law, the value in co is one of the stored
\* output limits or lies between them.
C1_ClampedOutput ==
    (RunOk /\ last.path \in {"manual"} \cup LawPaths)
        => AtOrBetweenLimits(Deref(co))

\* C1, witness: the control law ran and its output was cut to the high limit.
C1_Witness ==
    /\ RunOk /\ last.path = "integrate"
    /\ coll < cohl /\ co = Cell(cohl) /\ Iterm > cohl

\* C2 as stated: after any run_pid call that returns 0, Iterm and tmp_co are
\* both within [coll, cohl] (stated for ordered limits, as C1_Original).
C2_Original ==
    (RunOk /\ coll <= cohl) => (WithinLimits(Iterm) /\ WithinLimits(tmp_co))

\* C2, amended: after a run_pid call that returns 0 from the manual branch or
\* from the control law, tmp_co is one of the stored output limits or lies
\* between them; Iterm is not held to the limits: it is 0 after a law
\* evaluation with ki = 0 and is left as it was by the manual branch.
C2_LastOutputClamped ==
    [][(RunOk' /\ last'.path \in {"manual"} \cup LawPaths)
         => /\ AtOrBetweenLimits(tmp_co)'
            /\ (last'.path = "reset" => Iterm' = 0)
            /\ (last'.path = "manual" => Iterm' = Iterm)]_vars

\* C2, witness: tmp_co sits at the low limit while Iterm is below it.
C2_Witness ==
    /\ RunOk /\ last.path \in LawPaths
    /\ coll < cohl /\ tmp_co = coll /\ Iterm < coll

\* C3 as stated: whenever man_on is set and run_pid returns 0, co holds the
\* tieback value (0 if tb is absent) clamped to the limits, whatever the
\* timestamp.
C3_Original ==
    (RunOk /\ man_on)
        => co = Cell(Clamp(IF tb = NULL THEN 0 ELSE Deref(tb), coll, cohl))

\* C3, amended: whenever man_on is set and run_pid performs an effective
\* evaluation (elapsed time >= dtmin), it returns 0 through the manual
\* branch and co holds the tieback value (0 if tb is absent) clamped by
\* (x < coll) ? coll : (x > cohl) ? cohl : x.
C3_ManualPassThrough ==
    (last.op = "run_pid" /\ man_on /\ last.path \in EffectivePaths)
        => /\ last.ret = 0
           /\ last.path = "manual"
           /\ co = Cell(LET x == IF tb = NULL THEN 0 ELSE Deref(tb)
                        IN IF x < coll THEN coll
                           ELSE IF x > cohl THEN cohl ELSE x)

\* C3, witness: a manual evaluation cut a tieback above the high limit.
C3_Witness ==
    /\ RunOk /\ man_on /\ last.path = "manual"
    /\ tb # NULL /\ coll < cohl /\ Deref(tb) > cohl /\ co = Cell(cohl)


\* The facts of a run_pid(t) call, read from the state it is made in.
Bound == pv # NULL /\ sp # NULL /\ co # NULL
\* The call passes both precondition checks and the time slice has elapsed.
EffectiveAt(t) == Bound /\ dtmin # 0 /\ t >= lts /\ t - lts >= dtmin
\* The call passes both precondition checks and the time slice has not.
SlicedAt(t) == Bound /\ dtmin # 0 /\ t >= lts /\ t - lts < dtmin
\* sp - pv at the call.
ErrNow == Deref(sp) - Deref(pv)

\* C4: once an effective evaluation has written v to co, every later run_pid
\* call made less than dtmin after it (no effective evaluation in between)
\* returns 0 and writes exactly v to co, whatever the setters and the caller
\* changed in between; the call changes no transient state.
C4_SliceReplay ==
    [][\A t \in Stamps :
          (run_pid(t) /\ SlicedAt(t) /\ eff_co # NULL)
              => /\ last'.ret = 0
                 /\ co' = eff_co
                 /\ UNCHANGED <<transient, eff_co>>]_vars

\* C4, witness: a time-sliced call replayed an earlier output although the
\* controller, now in manual mode, would pass another tieback value through.
C4_Witness ==
    /\ RunOk /\ last.path = "slice" /\ eff_co # NULL /\ co = eff_co
    /\ man_on /\ tb # NULL /\ ManualOut(tb, coll, cohl) # Deref(co)

\* The first automatic evaluation after a manual one, at timestamp t.
TransferAt(t) == EffectiveAt(t) /\ ~man_on /\ lman_on /\ eff_co # NULL

\* C5 as stated: at the first effective automatic evaluation after an
\* effective manual evaluation that wrote m, the output is
\* clamp(m + kp*e + kd*(e - lerr)/dt + ki*e*dt), for every gain setting
\* (stated for ordered limits, as C1_Original).
C5_Original ==
    [][\A t \in Stamps :
          (run_pid(t) /\ TransferAt(t) /\ coll <= cohl)
              => co' = Cell(Clamp(tmp_co + kp * ErrNow
                                  + RDiv(kd * (ErrNow - lerr), t - lts)
                                  + RDiv(ki * ErrNow * (t - lts), KiFrac),
                                  coll, cohl))]_vars

\* C5, amended: at the first effective automatic evaluation after an
\* effective manual evaluation that wrote m, Iterm is seeded with m.  If the
\* deadband gates the cycle, the output stays m and Iterm stays m.
\* Otherwise, with pd = kp*e + kd*(e - lerr)/dt: if ki = 0 the seed is
\* dropped again (Iterm becomes 0) and the output is clamp(pd); if ki # 0 the
\* output is clamp(pd + m + d) and Iterm becomes m + d, where d = ki*e*dt, or
\* 0 when the anti-windup test freezes it.
C5_BumplessTransfer ==
    [][\A t \in Stamps :
          (run_pid(t) /\ TransferAt(t))
              => LET e == ErrNow
                     m == tmp_co
                     pd == kp * e + RDiv(kd * (e - lerr), t - lts)
                     di == RDiv(ki * e * (t - lts), KiFrac)
                     d == IF (pd + m > cohl /\ di > 0) \/ (pd + m < coll /\ di < 0)
                          THEN 0 ELSE di
                 IN /\ m = Deref(eff_co)
                    /\ IF db_on /\ e < db
                       THEN co' = Cell(m) /\ Iterm' = m
                       ELSE IF ki = 0
                       THEN co' = Cell(Clamp(pd, coll, cohl)) /\ Iterm' = 0
                       ELSE /\ co' = Cell(Clamp(pd + m + d, coll, cohl))
                            /\ Iterm' = m + d]_vars

\* C5, witness: a seeded law evaluation with integral action: Iterm is the
\* nonzero manual output the controller came from.
C5_Witness ==
    /\ RunOk /\ last.seeded /\ last.path = "frozen"
    /\ ki # 0 /\ kp # 0 /\ Iterm # 0 /\ eff_co # NULL

\* The deadband gates an effective automatic evaluation at timestamp t.
GatedAt(t) == EffectiveAt(t) /\ ~man_on /\ db_on /\ ErrNow < db

\* C6 as stated: in an effective automatic evaluation with deadband enabled
\* and error below the threshold, co after the call equals co before the
\* call and the call returns 0.
C6_Original ==
    [][\A t \in Stamps :
          (run_pid(t) /\ GatedAt(t)) => (co' = co /\ last'.ret = 0)]_vars

\* C6, amended: in such an evaluation the call returns 0, the control law is
\* not applied (tmp_co is kept, Iterm changes only by bumpless seeding) and
\* co after the call holds the last computed output tmp_co; that is the
\* value co held before the call whenever an earlier effective evaluation
\* had written co.
C6_DeadbandHold ==
    [][\A t \in Stamps :
          (run_pid(t) /\ GatedAt(t))
              => /\ last'.ret = 0
                 /\ tmp_co' = tmp_co
                 /\ co' = Cell(tmp_co)
                 /\ Iterm' = (IF lman_on THEN tmp_co ELSE Iterm)
                 /\ (eff_co # NULL => co' = co)]_vars

\* C6, witness: a gated cycle held a nonzero output.
C6_Witness ==
    /\ RunOk /\ last.path = "deadband" /\ db_on /\ ErrNow < db
    /\ co = Cell(tmp_co) /\ tmp_co # 0

\* The control law is applied with integral action at timestamp t.
IntegratingAt(t) ==
    EffectiveAt(t) /\ ~man_on /\ ~(db_on /\ ErrNow < db) /\ ki # 0

\* C7: in an effective automatic evaluation with ki # 0 that is not gated,
\* let I be the Iterm in force (the stored Iterm; the last output in the
\* first evaluation after manual mode), total = kp*e + D + I and
\* d = ki*e*dt.  If total > cohl and d > 0, or total < coll and d < 0, Iterm
\* is left at I; otherwise it becomes I + d.
C7_AntiWindup ==
    [][\A t \in Stamps :
          (run_pid(t) /\ IntegratingAt(t))
              => LET e == ErrNow
                     i0 == IF lman_on THEN tmp_co ELSE Iterm
                     total == kp * e + RDiv(kd * (e - lerr), t - lts) + i0
                     d == RDiv(ki * e * (t - lts), KiFrac)
                 IN IF (total > cohl /\ d > 0) \/ (total < coll /\ d < 0)
                    THEN Iterm' = i0
                    ELSE Iterm' = i0 + d]_vars

\* C7, witness: a later automatic evaluation (no seeding) found the total
\* above the high limit with the error still positive, and froze Iterm.
C7_Witness ==
    /\ RunOk /\ last.path = "frozen" /\ ~last.seeded
    /\ ErrNow > 0 /\ coll < cohl /\ co = Cell(cohl)


\* ------------------------------------------------------------------------
\* The limit accessors on their own
\* ------------------------------------------------------------------------

\* Limit arguments: every pair over 0..MaxLim, and the declared defaults.
LimArgs == ((0..MaxLim) \X (0..MaxLim)) \cup {<<-FLT_MAX, FLT_MAX>>}

\* Full constructor with every limit pair drawn from LimArgs (in any order)
\* and the other parameters as in the unit test's pid2.
InitFullLimits ==
    /\ \E b \in Bindings, pl \in LimArgs, sl \in LimArgs, cl \in LimArgs,
          dtminv \in DtMins :
          Ctor_full(b[1], b[2], b[3], b[4], 4, 3, 2, 1,
                    pl[1], pl[2], sl[1], sl[2], cl[1], cl[2],
                    FALSE, TRUE, dtminv)
    /\ last = Call("base_pid", 0, "none", FALSE)
    /\ out = <<>>
    /\ eff_co = NULL
    /\ now = 0

InitLimits == InitDefault \/ InitMinimal \/ InitFullLimits

NextLimits ==
    \/ get_pv_limits
    \/ get_sp_limits
    \/ get_co_limits
    \/ \E p \in LimArgs : set_pv_limits(p[1], p[2])
    \/ \E p \in LimArgs : set_sp_limits(p[1], p[2])
    \/ \E p \in LimArgs : set_cp_limits(p[1], p[2])

SpecLimits == InitLimits /\ [][NextLimits]_vars

\* C8: in every reachable state, after any constructor and any sequence of
\* set_pv_limits, set_sp_limits and set_cp_limits calls, each stored range
\* pair satisfies low <= high.
C8_LimitsOrdered == pvll <= pvhl /\ spll <= sphl /\ coll <= cohl

\* C9: dtmin >= 1 in every reachable state after construction, so the
\* zero-interval failure branch of run_pid is never reached.
C9_DtminPositive == dtmin >= 1 /\ last.path # "dtzero"

\* What C10 says of a set_*_limits(ll, hl) call: the result, the pair
\* stored in <<lo, hi>>.
SetLimitsPost(ll, hl, ret, lo, hi) ==
    IF hl < ll THEN ret = -1 /\ lo = hl /\ hi = ll
               ELSE ret = 0 /\ lo = ll /\ hi = hl

\* C10: set_pv_limits, set_sp_limits and set_cp_limits called with (low,
\* high) return -1 and store (high, low) if high < low, and otherwise return
\* 0 and store (low, high); the other two pairs are unchanged; a get_*_limits
\* call returns the stored pair and changes none.
C10_SetLimits ==
    [][/\ \A p \in LimArgs :
            /\ set_pv_limits(p[1], p[2])
                  => /\ SetLimitsPost(p[1], p[2], last'.ret, pvll', pvhl')
                     /\ UNCHANGED <<spll, sphl, coll, cohl>>
            /\ set_sp_limits(p[1], p[2])
                  => /\ SetLimitsPost(p[1], p[2], last'.ret, spll', sphl')
                     /\ UNCHANGED <<pvll, pvhl, coll, cohl>>
            /\ set_cp_limits(p[1], p[2])
                  => /\ SetLimitsPost(p[1], p[2], last'.ret, coll', cohl')
                     /\ UNCHANGED <<pvll, pvhl, spll, sphl>>
       /\ get_pv_limits
             => out' = <<pvll, pvhl>> /\ UNCHANGED <<pvsp_limits, co_limits>>
       /\ get_sp_limits
             => out' = <<spll, sphl>> /\ UNCHANGED <<pvsp_limits, co_limits>>
       /\ get_co_limits
             => out' = <<coll, cohl>> /\ UNCHANGED <<pvsp_limits, co_limits>>
      ]_vars

\* C10, witness: set_cp_limits was given high < low, stored the swapped pair
\* and failed; the pv pair, set before, is still in place.
C10_Witness ==
    /\ last.op = "set_cp_limits" /\ last.ret = -1
    /\ coll = 0 /\ cohl = MaxLim
    /\ pvll = MaxLim /\ pvhl = MaxLim


\* ------------------------------------------------------------------------
\* The parameter accessors on their own
\* ------------------------------------------------------------------------

\* Gain arguments: zero, one, the first magnitude above FLT_MAX * 1.0e-6
\* (both signs) and the infinities, which alone lie outside +-FLT_MAX.
KVals == {-Inf, -(KdMax + 1), 0, 1, KdMax + 1, Inf}
GainArgs == KVals \X KVals \X KVals
\* Time slice arguments.
DtArgs == {0, 1, DT_MIN_PID}

\* Full constructor given finite gains of any magnitude in KVals, the
\* other parameters at their declared defaults.
InitFullGains ==
    /\ \E b \in Bindings, g \in GainArgs :
          /\ \A i \in 1..3 : g[i] \notin {Inf, -Inf}
          /\ Ctor_full(b[1], b[2], b[3], b[4], g[1], g[2], g[3], 0,
                       -FLT_MAX, FLT_MAX, -FLT_MAX, FLT_MAX, -FLT_MAX,
                       FLT_MAX, FALSE, TRUE, DT_MIN_PID)
    /\ last = Call("base_pid", 0, "none", FALSE)
    /\ out = <<>>
    /\ eff_co = NULL
    /\ now = 0

InitParams == InitDefault \/ InitMinimal \/ InitFullGains

NextParams ==
    \/ get_gain_param
    \/ \E g \in GainArgs : set_gain_param(g[1], g[2], g[3])
    \/ get_db_param
    \/ \E d \in DbParams : set_db_param(d[1], d[2])
    \/ get_man_param
    \/ \E on \in BOOLEAN : set_man_param(on)
    \/ get_dtmin_param
    \/ \E d \in DtArgs : set_dtmin_param(d)

SpecParams == InitParams /\ [][NextParams]_vars

\* C11: set_dtmin_param(0) returns -1 and leaves dtmin equal to 1;
\* set_dtmin_param(v) with v >= 1 returns 0 and stores v; get_dtmin_param
\* returns the stored value and leaves it in place.
C11_SetDtmin ==
    [][/\ \A d \in DtArgs :
            set_dtmin_param(d)
                => IF d = 0 THEN last'.ret = -1 /\ dtmin' = 1
                            ELSE last'.ret = 0 /\ dtmin' = d
       /\ (last'.op = "get_dtmin_param" /\ get_dtmin_param)
             => (out' = <<dtmin>> /\ dtmin' = dtmin)]_vars

\* C11, witness: get_dtmin_param read back the floor 1 that a failed
\* set_dtmin_param(0) left behind a larger value.
C11_Witness ==
    /\ last.op = "get_dtmin_param" /\ out = <<1>> /\ dtmin = 1
    /\ DT_MIN_PID > 1

\* kpv or kiv outside [-FLT_MAX, FLT_MAX], or kdv outside
\* [-FLT_MAX * 1.0e-6, FLT_MAX * 1.0e-6].
GainOutOfRange(kpv, kiv, kdv) ==
    \/ kpv < -FLT_MAX \/ kpv > FLT_MAX
    \/ kiv < -FLT_MAX \/ kiv > FLT_MAX
    \/ kdv < -KdMax \/ kdv > KdMax

\* C14: set_gain_param(kp, ki, kd) returns -1 and leaves kp, ki, kd
\* unchanged exactly when kp or ki lies outside [-FLT_MAX, FLT_MAX] or kd
\* outside [-FLT_MAX*1e-6, FLT_MAX*1e-6]; for every other input it returns 0
\* and stores kp as given, ki scaled by 1e-6 and kd scaled by 1e+6.
C14_GainValidation ==
    [][\A g \in GainArgs :
          set_gain_param(g[1], g[2], g[3])
              => IF GainOutOfRange(g[1], g[2], g[3])
                 THEN last'.ret = -1 /\ UNCHANGED gains
                 ELSE /\ last'.ret = 0
                      /\ kp' = g[1]
                      /\ ki' = RDiv(g[2] * KiFrac, USEC)
                      /\ kd' = g[3] * USEC]_vars

\* C16: after a set_gain_param(kp, ki, kd) that returned 0, the gains read
\* back in caller units are (kp, ki, kd) again; get_gain_param returns the
\* stored gains in caller units and does not change them.
C16_GainRoundTrip ==
    [][/\ \A g \in GainArgs :
            (set_gain_param(g[1], g[2], g[3]) /\ last'.ret = 0)
                => <<kp', UnscaleKi(ki'), UnscaleKd(kd')>> = g
       /\ (last'.op = "get_gain_param" /\ get_gain_param)
             => /\ out' = <<kp, UnscaleKi(ki), UnscaleKd(kd)>>
                /\ UNCHANGED gains]_vars


\* ------------------------------------------------------------------------
\* Claims about the branches of run_pid
\* ------------------------------------------------------------------------

\* C12: when run_pid returns -1 no controller state is changed and nothing
\* is written to co: the transient state, dtmin, every tuning parameter and
\* the cells are as before the call.
C12_FailureNoChange ==
    [][\A t \in Stamps :
          (run_pid(t) /\ last'.ret = -1)
              => UNCHANGED <<bindings, gains, db, pvsp_limits, co_limits,
                             dtmin, db_on, man_on, transient>>]_vars

\* C12, witness: run_pid failed on dtmin = 0 after setters had changed the
\* tuning; the co cell still holds what the caller put there.
C12_Witness ==
    /\ last.op = "run_pid" /\ last.ret = -1 /\ last.path = "dtzero"
    /\ dtmin = 0 /\ ~man_on /\ kp # 0 /\ co \in {Cell(c) : c \in CoInit}

\* C13: run_pid returns -1 if and only if the pv, sp or co binding is absent
\* or dtmin is 0; on every other path it returns 0 and co holds a defined
\* value, the last computed output.
C13_FailureIff ==
    [][\A t \in Stamps :
          run_pid(t)
              => /\ last'.ret \in {0, -1}
                 /\ last'.ret = -1
                        <=> (pv = NULL \/ sp = NULL \/ co = NULL \/ dtmin = 0)
                 /\ last'.ret = 0 => (co' # NULL /\ co' = Cell(tmp_co'))]_vars

\* C13, witness: a rate-limited call after an effective evaluation
\* succeeded and wrote the last computed output.
C13_Witness ==
    /\ RunOk /\ last.path = "slice" /\ lts > 0
    /\ co = Cell(tmp_co) /\ dtmin > 0

\* C19: a rate-limited run_pid call (timestamp - lts < dtmin) returns 0 and
\* changes no controller state; co is set to the last computed output,
\* which is 0 if no effective evaluation has happened since construction.
C19_SliceFrame ==
    [][\A t \in Stamps :
          (run_pid(t) /\ SlicedAt(t))
              => /\ last'.ret = 0
                 /\ UNCHANGED <<transient, gains, db, pvsp_limits, co_limits,
                                dtmin, db_on, man_on, pv, sp, tb>>
                 /\ co' = Cell(tmp_co)
                 /\ eff_co = NULL => co' = Cell(0)]_vars

\* C19, witness: the first call of a controller in manual mode with a
\* nonzero tieback was rate-limited and wrote 0 over the cell's content.
C19_Witness ==
    /\ RunOk /\ last.path = "slice" /\ eff_co = NULL /\ lts = 0
    /\ man_on /\ tb # NULL /\ Deref(tb) # 0 /\ co = Cell(0)

\* C20: in an effective automatic evaluation with the deadband enabled the
\* control law is skipped for every error e = sp - pv with e < db, however
\* negative, and applied for every e >= db; when skipped, lerr becomes e,
\* lts the timestamp and the last computed output is kept.
C20_SignedDeadband ==
    [][\A t \in Stamps :
          (run_pid(t) /\ EffectiveAt(t) /\ ~man_on /\ db_on)
              => IF ErrNow < db
                 THEN /\ last'.path = "deadband"
                      /\ lerr' = ErrNow /\ lts' = t
                      /\ tmp_co' = tmp_co
                 ELSE /\ last'.path \in LawPaths
                      /\ lerr' = ErrNow /\ lts' = t]_vars

\* C20, witness: a cycle was gated although the magnitude of its (negative)
\* error is not below the deadband.
C20_Witness ==
    /\ RunOk /\ last.path = "deadband" /\ db_on /\ db > 0
    /\ lerr < 0 /\ -lerr >= db /\ lts > 0


\* ------------------------------------------------------------------------
\* Every operation side by side
\* ------------------------------------------------------------------------

\* Timestamps 0 and the whole seconds up to NSec + 1: room for one more
\* effective evaluation than Stamps gives.
FrameStamps == {0} \cup {k * USEC : k \in 1..(NSec + 1)}
\* Limit arguments: one ordered pair and the same pair reversed.
FrameLims == {<<0, MaxLim>>, <<MaxLim, 0>>}
\* Gain arguments: the PID controller of the unit test and an infinite kp.
FrameGains == {<<1, 1, 1>>, <<Inf, 1, 1>>}

\* The unit test's pidPID with every cell bound and the informational
\* limits at (0, MaxLim).
InitFrame ==
    /\ \E c \in CoInit :
          Ctor_full(Cell(0), Cell(0), Cell(c), Cell(0), 1, 1, 1, 0,
                    0, MaxLim, 0, MaxLim, -FLT_MAX, FLT_MAX,
                    FALSE, TRUE, DT_MIN_PID)
    /\ last = Call("base_pid", 0, "none", FALSE)
    /\ out = <<>>
    /\ eff_co = NULL
    /\ now = 0

NextFrame ==
    \/ \E t \in FrameStamps : t >= now /\ run_pid(t)
    \/ \E b \in Vals, c \in TbVals : caller_write(0, b, c)
    \/ get_pv_limits
    \/ get_sp_limits
    \/ get_co_limits
    \/ get_gain_param
    \/ get_db_param
    \/ get_man_param
    \/ get_dtmin_param
    \/ \E p \in FrameLims : set_pv_limits(p[1], p[2])
    \/ \E p \in FrameLims : set_sp_limits(p[1], p[2])
    \/ \E p \in FrameLims : set_cp_limits(p[1], p[2])
    \/ \E g \in FrameGains : set_gain_param(g[1], g[2], g[3])
    \/ \E d \in DbParams : set_db_param(d[1], d[2])
    \/ \E on \in BOOLEAN : set_man_param(on)
    \/ \E d \in DtMins : set_dtmin_param(d)

SpecFrame == InitFrame /\ [][NextFrame]_vars

\* The getters and the setters.
Getters ==
    {"get_pv_limits", "get_sp_limits", "get_co_limits", "get_gain_param",
     "get_db_param", "get_man_param", "get_dtmin_param"}
Setters ==
    {"set_pv_limits", "set_sp_limits", "set_cp_limits", "set_gain_param",
     "set_db_param", "set_man_param", "set_dtmin_param"}

\* C17: every getter and every setter, whether it succeeds or fails, leaves
\* lts, lman_on, Iterm, lerr, the last computed output and the co cell
\* unchanged; a getter changes no parameter either.
C17_AccessorFrame ==
    [][/\ last'.op \in Getters \cup Setters => UNCHANGED <<transient, co>>
       /\ last'.op \in Getters
             => UNCHANGED <<gains, db, pvsp_limits, co_limits, dtmin, db_on,
                            man_on>>]_vars

\* C17, witness: a setter failed after evaluations had left a transient
\* state of their own, which is still in place.
C17_Witness ==
    /\ last.op \in Setters /\ last.ret = -1
    /\ lts > 0 /\ ~lman_on /\ Iterm # 0 /\ lerr # 0 /\ tmp_co # 0
    /\ co = Cell(tmp_co)

\* C18: an effective manual-mode evaluation leaves Iterm and lerr (and
\* every parameter) unchanged; it sets lts to the timestamp, tmp_co and co
\* to the clamped tieback value (0 without tieback) and lman_on to true.
C18_ManualFrame ==
    [][\A t \in FrameStamps :
          (run_pid(t) /\ EffectiveAt(t) /\ man_on)
              => /\ Iterm' = Iterm /\ lerr' = lerr
                 /\ lts' = t /\ lman_on' = TRUE
                 /\ tmp_co' = (LET x == IF tb = NULL THEN 0 ELSE Deref(tb)
                               IN IF x < coll THEN coll
                                  ELSE IF x > cohl THEN cohl ELSE x)
                 /\ co' = Cell(tmp_co')
                 /\ UNCHANGED <<pv, sp, tb, gains, db, pvsp_limits,
                                co_limits, dtmin, db_on, man_on>>]_vars

\* C18, witness: a manual evaluation after automatic ones: the integral
\* term and the last error they left are still in place.
C18_Witness ==
    /\ RunOk /\ last.path = "manual" /\ lman_on
    /\ Iterm # 0 /\ lerr # 0 /\ lts > 0 /\ co = Cell(tmp_co)



\* ------------------------------------------------------------------------
\* The executions of the unit test
\* ------------------------------------------------------------------------

\* The value 1.0 of a cell: here the cells, the limits and the terms of the
\* control law count thousandths, so that 0.001 is a value.
Unit == 1000
\* tstep0 and tstep1 of TEST(base_pid, Execution), in us.
tstep0 == 1000
tstep1 == 2000

\* Caller gains of pidP, pidI, pidD and pidPID.
ExecGains == {<<1, 0, 0>>, <<0, 1, 0>>, <<0, 0, 1>>, <<1, 1, 1>>}
\* Contents <<pv, sp>> of the cells: the error is -1.0, 0 or 1.0.
ExecCells ==
    {<<Unit, 0>>, <<-Unit, 0>>, <<0, Unit>>, <<0, -Unit>>, <<0, 0>>}
\* Output limits: the defaults and (0, 1.0).
ExecLims == {<<-FLT_MAX, FLT_MAX>>, <<0, Unit>>}

\* base_pid pidX(&tpv, &tsp, &tco, &ttb, kp, ki, kd, 0) with tco = 0 and
\* ttb = 2.0.
InitExec ==
    /\ \E g \in ExecGains, c \in ExecCells :
          Ctor_full(Cell(c[1]), Cell(c[2]), Cell(0), Cell(2 * Unit),
                    g[1], g[2], g[3], 0,
                    -FLT_MAX, FLT_MAX, -FLT_MAX, FLT_MAX, -FLT_MAX, FLT_MAX,
                    FALSE, TRUE, DT_MIN_PID)
    /\ last = Call("base_pid", 0, "none", FALSE)
    /\ out = <<>>
    /\ eff_co = NULL
    /\ now = 0

NextExec ==
    \/ \E t \in {tstep0, tstep1} : t >= now /\ run_pid(t)
    \/ \E on \in BOOLEAN : set_man_param(on)
    \/ \E p \in ExecLims : set_cp_limits(p[1], p[2])
    \/ \E c \in ExecCells : caller_write(c[1], c[2], 2 * Unit)

SpecExec == InitExec /\ [][NextExec]_vars

\* The scenarios of TEST(base_pid, Execution): gains, the cells and the
\* expected output at the step up, the integral term it leaves, the cells
\* and the expected output at the step down.
ExecCases ==
    {[g |-> <<1, 0, 0>>, pv0 |-> Unit, sp0 |-> 0, up |-> -Unit,
      iterm |-> 0, pv1 |-> -Unit, sp1 |-> 0, down |-> Unit],
     [g |-> <<0, 1, 0>>, pv0 |-> 0, sp0 |-> Unit, up |-> 1,
      iterm |-> 1, pv1 |-> 0, sp1 |-> -Unit, down |-> 0],
     [g |-> <<0, 0, 1>>, pv0 |-> Unit, sp0 |-> 0, up |-> -1000 * Unit,
      iterm |-> 0, pv1 |-> -Unit, sp1 |-> 0, down |-> 2000 * Unit],
     [g |-> <<1, 1, 1>>, pv0 |-> 0, sp0 |-> Unit, up |-> 1001 * Unit + 1,
      iterm |-> 1, pv1 |-> 0, sp1 |-> -Unit, down |-> -2001 * Unit]}

\* The gains in caller units.
CallerGains == <<kp, UnscaleKi(ki), UnscaleKd(kd)>>
\* A controller switched to automatic that has not evaluated yet.
FreshAuto ==
    /\ ~man_on /\ ~db_on /\ lts = 0 /\ Iterm = 0 /\ lerr = 0 /\ tmp_co = 0
    /\ coll = -FLT_MAX /\ cohl = FLT_MAX
\* The controller of scenario c after its step up.
AfterStepUp(c) ==
    /\ ~man_on /\ ~db_on /\ ~lman_on /\ lts = tstep0
    /\ Iterm = c.iterm /\ lerr = c.sp0 - c.pv0
    /\ coll = -FLT_MAX /\ cohl = FLT_MAX

\* C15: in an effective automatic evaluation that is not deadband-gated,
\* with e = sp - pv, dt = timestamp - lts and Iterm as the bumpless step
\* left it, co receives clamp(kp*e + (1e+6*kd)*(e - lerr)/dt + I), where
\* I = 0 and Iterm becomes 0 if ki = 0, and otherwise I is Iterm plus
\* (1e-6*ki)*e*dt, the delta left out when the anti-windup test freezes it;
\* kp, ki, kd are the caller's gains.  The two evaluations of the unit test
\* yield -1, 0.001, -1000, 1001.001 at the step up and 1, 0, 2000, -2001 at
\* the step down.
C15_ControlLaw ==
    [][/\ \A t \in {tstep0, tstep1} :
            (run_pid(t) /\ EffectiveAt(t) /\ ~man_on
                        /\ ~(db_on /\ ErrNow < db))
                => LET e == ErrNow
                       dt == t - lts
                       g == CallerGains
                       i0 == IF lman_on THEN tmp_co ELSE Iterm
                       pd == g[1] * e + RDiv((USEC * g[3]) * (e - lerr), dt)
                       d == RDiv(g[2] * e * dt, USEC)
                       frz == \/ (pd + i0 > cohl /\ d > 0)
                              \/ (pd + i0 < coll /\ d < 0)
                       I == IF g[2] = 0 THEN 0
                            ELSE IF frz THEN i0 ELSE i0 + d
                   IN /\ co' = Cell(Clamp(pd + I, coll, cohl))
                      /\ Iterm' = I
       /\ \A c \in ExecCases :
            /\ (run_pid(tstep0) /\ FreshAuto /\ CallerGains = c.g
                    /\ pv = Cell(c.pv0) /\ sp = Cell(c.sp0))
                  => (co' = Cell(c.up) /\ Iterm' = c.iterm)
            /\ (run_pid(tstep1) /\ AfterStepUp(c) /\ CallerGains = c.g
                    /\ pv = Cell(c.pv1) /\ sp = Cell(c.sp1))
                  => co' = Cell(c.down)]_vars

\* C15, witness: pidPID after its step down: -2001 in co, the integral
\* increments of the two steps cancelled.
C15_Witness ==
    /\ RunOk /\ last.path = "integrate" /\ lts = tstep1
    /\ CallerGains = <<1, 1, 1>> /\ lerr = -Unit /\ Iterm = 0
    /\ co = Cell(-2001 * Unit)


\* ------------------------------------------------------------------------
\* The last calculation timestamp
\* ------------------------------------------------------------------------

\* C21: with non-decreasing timestamps, lts never decreases and never
\* exceeds the latest timestamp given; lts changes only in a call that
\* performs an effective evaluation, which sets it to the timestamp; an
\* effective evaluation comes at least dtmin (as stored at that call) after
\* the one before it; and while no effective evaluation has happened lts is
\* 0, so a call that passes the precondition checks with a timestamp below
\* dtmin is rate-limited.
C21_LastTimestamp ==
    [][/\ lts' >= lts
       /\ lts' <= now'
       /\ eff_co' = NULL => lts' = 0
       /\ lts' # lts
             => (last'.op = "run_pid" /\ last'.path \in EffectivePaths)
       /\ \A t \in Stamps :
            (run_pid(t) /\ t >= now)
                => /\ last'.path \in EffectivePaths
                      => (lts' = t /\ t - lts >= dtmin)
                   /\ (Bound /\ dtmin # 0 /\ eff_co = NULL /\ t < dtmin)
                      => (last'.path = "slice" /\ last'.ret = 0 /\ lts' = 0)
      ]_vars

\* C21, witness: the first call, at a timestamp below dtmin, was
\* rate-limited: lts is still 0, behind the timestamp given.
C21_Witness ==
    /\ RunOk /\ last.path = "slice" /\ eff_co = NULL
    /\ lts = 0 /\ now > 0 /\ now < dtmin

============================================================================
